---- MODULE Spec2Model ----
(***************************************************************************)
(* xrun: one run of processDataFileWithOptions (src/main.go).  A data file *)
(* (CSV, JSON array or JSON Lines) is read in full, the command template   *)
(* is compiled once, and for every record the template is rendered and the *)
(* rendered command is handed to the executor chosen for the run (print    *)
(* or execute-with-logging).                                               *)
(*                                                                         *)
(* Strings whose content matters (cells, commands) are sequences of        *)
(* one-character strings.  A template is given in lexed form: a sequence   *)
(* of text runs, {{.field}} actions and unterminated "{{" actions.         *)
(***************************************************************************)
EXTENDS Integers, Sequences, FiniteSets, TLC

VARIABLES
    dryRun,      \* flag --dry-run
    noLogFiles,  \* flag --no-log-files
    ext,         \* filepath.Ext(dataFile), as given on the command line
    execTemplate,\* the template argument, lexed
    content,     \* what the data file holds
    pc,          \* position of the run
    parser,      \* "none" | "csv" | "json" | "jsonl": branch of the switch
    executor,    \* "none" | "print" | "execute": progressExecutor
    logFile,     \* "none" | "open" | "closed": the LogWriter's file
    log,         \* lines written to the log file
    file,        \* "none" | "open" | "closed": the data file handle
    headers,     \* CSV header row
    allRows,     \* allRows / data / allLines
    tmpl,        \* compiled template (sequence of nodes)
    i,           \* 1-based index of the record the loop is at
    dispatched,  \* executor invocations, in order
    stdout,      \* lines written to os.Stdout
    stderr,      \* diagnostics written to os.Stderr
    runs,        \* argv of every cmd.Run(), in order
    returns,     \* what each executor call returned, in order
    result       \* "none" while running, "nil" or the error returned

vars == <<dryRun, noLogFiles, ext, execTemplate, content, pc, parser, executor,
          logFile, log, file, headers, allRows, tmpl, i, dispatched, stdout,
          stderr, runs, returns, result>>

inputs == <<dryRun, noLogFiles, ext, execTemplate, content>>

----------------------------------------------------------------------------
(* Bounds and input alphabets *)

MaxRows == 2
MaxTmplLen == 2

FieldNames == {"a", "b"}
Exts == {".csv", ".json", ".jsonl"}

SeqsUpTo(S, n) == UNION {[1..k -> S] : k \in 0..n}

\* Lexed template items.
TextTok(s) == [k |-> "text", s |-> s, chain |-> <<>>]
FieldTok(c) == [k |-> "field", s |-> <<>>, chain |-> c]
UnclosedTok == [k |-> "unclosed", s |-> <<>>, chain |-> <<>>]
\* {{slice .f 0 1}}
SliceTok(f) == [k |-> "slice", s |-> <<>>, chain |-> <<f>>]

\* Complete items: text, {{.a}}, {{.b}} and {{.a.b}}
TmplToks ==
    {TextTok(<<"e">>), FieldTok(<<"a">>), FieldTok(<<"b">>), FieldTok(<<"a", "b">>)}

\* An unterminated action reaches to the end of the template, so it can only
\* be the last item.  main only starts a run when the template argument is
\* not the empty string.
Templates ==
    (SeqsUpTo(TmplToks, MaxTmplLen) \ {<<>>}) \cup
    {Append(t, UnclosedTok) : t \in SeqsUpTo(TmplToks, MaxTmplLen - 1)}

\* CSV: the header line and the data lines.  A line is a row of cells or a
\* line encoding/csv cannot parse (a bare quote).
BadLine == [bad |-> TRUE, cells |-> <<>>]
RowLine(c) == [bad |-> FALSE, cells |-> c]

CsvHeaderLines == {RowLine(<<"a">>), RowLine(<<"a", "b">>), BadLine}
\* cell values: a word and a single space
X == <<"x">>
Sp == <<" ">>
CsvDataLines == {RowLine(<<X>>), RowLine(<<X, Sp>>), RowLine(<<Sp, X>>), BadLine}

CsvContents ==
    {[kind |-> "csv", lines |-> <<>>]} \cup
    {[kind |-> "csv", lines |-> <<h>> \o d] :
        h \in CsvHeaderLines, d \in SeqsUpTo(CsvDataLines, MaxRows)}

\* JSON values as encoding/json decodes them into interface{}.
JStr(s) == [t |-> "str", s |-> s, b |-> FALSE, ip |-> 0, fp |-> <<>>]
JNum(ip, fp) == [t |-> "num", s |-> <<>>, b |-> FALSE, ip |-> ip, fp |-> fp]
JBool(b) == [t |-> "bool", s |-> <<>>, b |-> b, ip |-> 0, fp |-> <<>>]
JNull == [t |-> "null", s |-> <<>>, b |-> FALSE, ip |-> 0, fp |-> <<>>]
\* the nested object {"b": s}
JObj(s) == [t |-> "obj", s |-> s, b |-> FALSE, ip |-> 0, fp |-> <<>>]
\* the array [s]
JArr(s) == [t |-> "arr", s |-> s, b |-> FALSE, ip |-> 0, fp |-> <<>>]

JObjects ==
    {[f \in FieldNames |-> IF f = "a" THEN JStr(X) ELSE JStr(Sp)],
     [f \in FieldNames |-> IF f = "a" THEN JNum(1, <<>>) ELSE JBool(TRUE)],
     [f \in FieldNames |-> IF f = "a" THEN JNull ELSE JObj(X)],
     [f \in {"b"} |-> JStr(X)]}

JsonContents ==
    {[kind |-> "json", ok |-> FALSE, objs |-> <<>>]} \cup
    {[kind |-> "json", ok |-> TRUE, objs |-> o] : o \in SeqsUpTo(JObjects, MaxRows)}

\* JSONL: physical lines.  "blank" is empty after TrimSpace, "malformed" does
\* not unmarshal into an object, "toolong" exceeds the Scanner's buffer.
JLine(k, o) == [k |-> k, obj |-> o]
NoObj == [f \in {} |-> JNull]
JsonlLines ==
    {JLine("obj", o) : o \in JObjects} \cup
    {JLine("blank", NoObj), JLine("malformed", NoObj), JLine("toolong", NoObj)}

JsonlContents ==
    {[kind |-> "jsonl", lines |-> l] : l \in SeqsUpTo(JsonlLines, MaxRows)}

----------------------------------------------------------------------------
(* Pure helpers *)

\* mutant: the extension is compared as typed
ToLower_asTyped(e) == e

\* strings.ToLower on the extensions of Exts and AllExts
ToLower(e) ==
    CASE e = ".CSV" -> ".csv"
      [] e = ".JSON" -> ".json"
      [] e = ".Json" -> ".json"
      [] e = ".JSONL" -> ".jsonl"
      [] OTHER -> e

\* the switch on ext
ParserFor(e) ==
    CASE ToLower(e) = ".json" -> "json"
      [] ToLower(e) = ".jsonl" -> "jsonl"
      [] OTHER -> "csv"

ContentsFor(p) ==
    CASE p = "json" -> JsonContents
      [] p = "jsonl" -> JsonlContents
      [] OTHER -> CsvContents

\* data[k] = v on a map[string]string
Put(m, k, v) == [x \in (DOMAIN m) \cup {k} |-> IF x = k THEN v ELSE m[x]]

EmptyMap == [f \in {} |-> <<>>]

\* mutant: every line is taken as a row
CsvLineErr_never(line, n) == FALSE

\* encoding/csv Reader with its default FieldsPerRecord = 0: the first record
\* fixes the field count, and a later record with another count is an error
\* (ErrFieldCount), as is a line that does not parse.
CsvLineErr(line, n) == line.bad \/ Len(line.cells) # n

\* reader.Read() for the header: io.EOF on an empty file is an error here
CsvHeaderErr(lines) == Len(lines) = 0 \/ lines[1].bad

RECURSIVE CsvRowsFrom(_, _, _, _)
CsvRowsFrom(lines, k, n, acc) ==
    IF k > Len(lines) THEN [err |-> FALSE, rows |-> acc]
    ELSE IF CsvLineErr(lines[k], n) THEN [err |-> TRUE, rows |-> acc]
    ELSE CsvRowsFrom(lines, k + 1, n, Append(acc, lines[k].cells))

\* mutant: the first data row is skipped like the header
CsvReadAll_skipsFirstRow(lines) == CsvRowsFrom(lines, 3, Len(lines[1].cells), <<>>)

\* the loop that fills allRows
CsvReadAll(lines) == CsvRowsFrom(lines, 2, Len(lines[1].cells), <<>>)

\* data := make(map[string]string); for j, header := range headers {...}
RECURSIVE ZipFrom(_, _, _, _)
ZipFrom(hs, row, j, data) ==
    IF j > Len(hs) THEN data
    ELSE ZipFrom(hs, row, j + 1,
                 IF j <= Len(row) THEN Put(data, hs[j], row[j]) ELSE data)

\* mutant: every header gets the first cell (the column index is not used)
CsvRecord_firstCell(hs, row) == [f \in {hs[j] : j \in 1..Len(hs)} |-> row[1]]

CsvRecord(hs, row) == ZipFrom(hs, row, 1, EmptyMap)

\* bufio.Scanner loop of the JSONL reader: trimmed non-blank lines are kept;
\* a too-long line stops the scan and scanner.Err() reports it.
RECURSIVE ScanFrom(_, _, _)
ScanFrom(lines, k, acc) ==
    IF k > Len(lines) THEN [err |-> FALSE, lines |-> acc]
    ELSE IF lines[k].k = "toolong" THEN [err |-> TRUE, lines |-> acc]
    ELSE ScanFrom(lines, k + 1,
                  IF lines[k].k = "blank" THEN acc ELSE Append(acc, lines[k]))

\* mutant: blank lines are kept as records
ScanAll_keepsBlank(lines) ==
    LET long == {k \in DOMAIN lines : lines[k].k = "toolong"}
        stop == IF long = {} THEN Len(lines) + 1
                ELSE CHOOSE k \in long : \A m \in long : k <= m
    IN [err |-> long # {}, lines |-> SubSeq(lines, 1, stop - 1)]

ScanAll(lines) == ScanFrom(lines, 1, <<>>)

DigitChars == <<"0", "1", "2", "3", "4", "5", "6", "7", "8", "9">>

RECURSIVE Digits(_)
Digits(n) ==
    IF n < 10 THEN <<DigitChars[n + 1]>>
    ELSE Digits(n \div 10) \o <<DigitChars[(n % 10) + 1]>>

RECURSIVE StripTrailingZeros(_)
StripTrailingZeros(d) ==
    IF d # <<>> /\ d[Len(d)] = "0"
    THEN StripTrailingZeros(SubSeq(d, 1, Len(d) - 1))
    ELSE d

RECURSIVE LeadingZeros(_)
LeadingZeros(d) == IF d # <<>> /\ d[1] = "0" THEN 1 + LeadingZeros(Tail(d)) ELSE 0

\* the exponent of %e: a sign and at least two digits
ExpDigits(e) ==
    <<IF e < 0 THEN "-" ELSE "+">> \o
    (IF (IF e < 0 THEN -e ELSE e) < 10 THEN <<"0">> ELSE <<>>) \o
    Digits(IF e < 0 THEN -e ELSE e)

\* %e with the shortest digits d: d.ddde+XX
FormatE(d, e) ==
    <<d[1]>> \o (IF Len(d) > 1 THEN <<".">> \o Tail(d) ELSE <<>>) \o <<"e">> \o ExpDigits(e)

\* fmt.Sprintf("%g", v) for a non-negative float64 given by its shortest
\* decimal form ip.fp: the shortest digits that give the value back, in %e
\* form when the decimal exponent is below -4 or is 6 or more (strconv's
\* 'g' with precision -1 decides with precision 6), in plain form otherwise.
FormatG(ip, fp) ==
    LET exp == IF ip > 0 THEN Len(Digits(ip)) - 1 ELSE 0 - (LeadingZeros(fp) + 1)
        sig == IF ip > 0 THEN StripTrailingZeros(Digits(ip) \o fp)
               ELSE SubSeq(fp, LeadingZeros(fp) + 1, Len(fp))
    IN  IF ip = 0 /\ fp = <<>> THEN <<"0">>
        ELSE IF exp < 0 - 4 \/ exp >= 6 THEN FormatE(sig, exp)
        ELSE Digits(ip) \o (IF fp = <<>> THEN <<>> ELSE <<".">> \o fp)

\* json.Marshal of the nested object {"b": s}
Marshal(s) == <<"{", "\"", "b", "\"", ":", "\"">> \o s \o <<"\"", "}">>

\* json.Marshal of the array [s]
MarshalArr(s) == <<"[", "\"">> \o s \o <<"\"", "]">>

\* mutant: the string part of the value is taken, whatever its type
Coerce_stringPart(v) == v.s

\* the type switch that fills stringRow
Coerce(v) ==
    CASE v.t = "null" -> <<>>
      [] v.t = "str" -> v.s
      [] v.t = "num" -> FormatG(v.ip, v.fp)
      [] v.t = "bool" -> IF v.b THEN <<"t", "r", "u", "e">>
                                ELSE <<"f", "a", "l", "s", "e">>
      [] v.t = "arr" -> MarshalArr(v.s)
      [] OTHER -> Marshal(v.s)

StringRow(obj) == [f \in DOMAIN obj |-> Coerce(obj[f])]

\* mutant: only the first item of the template is checked
ParseErr_firstOnly(src) == Len(src) > 0 /\ src[1].k = "unclosed"

\* template.New("command").Parse: an unterminated action is a parse error
ParseErr(src) == \E k \in 1..Len(src) : src[k].k = "unclosed"

ParseTemplate(src) == [k \in 1..Len(src) |-> [k |-> src[k].k, s |-> src[k].s, chain |-> src[k].chain]]

\* evaluation of {{.f}} / {{.f.g}} on a map[string]string: a missing key is
\* the zero value "", and a field of a string cannot be evaluated.
FieldErr(chain) == Len(chain) # 1
\* mutant: a missing key prints as text/template's "<no value>"
FieldVal_noValue(chain, data) ==
    IF chain[1] \in DOMAIN data THEN data[chain[1]]
    ELSE <<"<", "n", "o", " ", "v", "a", "l", "u", "e", ">">>

FieldVal(chain, data) ==
    IF chain[1] \in DOMAIN data THEN data[chain[1]] ELSE <<>>

\* evaluation of an action node: {{slice .f 0 1}} is the first character of
\* the field's value, and an error (index out of range) when the value is
\* empty
ActionErr(node, data) ==
    IF node.k = "slice" THEN FieldVal(node.chain, data) = <<>>
    ELSE FieldErr(node.chain)

ActionVal(node, data) ==
    IF node.k = "slice" THEN <<FieldVal(node.chain, data)[1]>>
    ELSE FieldVal(node.chain, data)

\* tmpl.Execute(&buf, data)
RECURSIVE ExecFrom(_, _, _, _)
ExecFrom(nodes, k, data, buf) ==
    IF k > Len(nodes) THEN [err |-> FALSE, out |-> buf]
    ELSE IF nodes[k].k = "text" THEN ExecFrom(nodes, k + 1, data, buf \o nodes[k].s)
    ELSE IF ActionErr(nodes[k], data) THEN [err |-> TRUE, out |-> buf]
    ELSE ExecFrom(nodes, k + 1, data, buf \o ActionVal(nodes[k], data))

Execute(nodes, data) == ExecFrom(nodes, 1, data, <<>>)

\* strings.Fields
RECURSIVE FieldsFrom(_, _, _, _)
FieldsFrom(s, k, cur, acc) ==
    IF k > Len(s) THEN (IF cur = <<>> THEN acc ELSE Append(acc, cur))
    ELSE IF s[k] = " "
         THEN FieldsFrom(s, k + 1, <<>>, IF cur = <<>> THEN acc ELSE Append(acc, cur))
         ELSE FieldsFrom(s, k + 1, Append(cur, s[k]), acc)

StringsFields(s) == FieldsFrom(s, 1, <<>>, <<>>)

----------------------------------------------------------------------------
(* The run *)

\* the state of a run before its first step
InitRun ==
    /\ pc = "start"
    /\ parser = "none"
    /\ executor = "none"
    /\ logFile = "none"
    /\ log = <<>>
    /\ file = "none"
    /\ headers = <<>>
    /\ allRows = <<>>
    /\ tmpl = <<>>
    /\ i = 1
    /\ dispatched = <<>>
    /\ stdout = <<>>
    /\ stderr = <<>>
    /\ runs = <<>>
    /\ returns = <<>>
    /\ result = "none"

Init ==
    /\ dryRun \in BOOLEAN
    /\ noLogFiles \in BOOLEAN
    /\ ext \in Exts
    /\ execTemplate \in Templates
    /\ content \in ContentsFor(ParserFor(ext))
    /\ InitRun

\* Runs over a wider input alphabet and short templates: extensions in any
\* case, unknown or absent; files holding CSV text under every extension;
\* command text with shell operators; an action whose evaluation fails for
\* some records only.
AllExts == {".csv", ".CSV", ".json", ".JSON", ".Json", ".jsonl", ".JSONL", ".data", ""}

PipeCmd == <<"e", " ", "|", " ", "e">>
RedirectCmd == <<"e", " ", ">", " ", "f">>
WideToks ==
    TmplToks \cup {TextTok(PipeCmd), TextTok(RedirectCmd), SliceTok("a"),
                   FieldTok(<<"b", "b">>)}
WideTemplates ==
    {<<t>> : t \in WideToks} \cup {<<UnclosedTok>>, <<TextTok(<<"e">>), SliceTok("a")>>}

\* What the reader chosen for the run gets from a file holding CSV text:
\* the JSON decoder fails on it (it is not a JSON array), and no line of it
\* unmarshals into a JSON object.
CsvTextAs(p, f) ==
    CASE p = "json" -> [kind |-> "csv", lines |-> f.lines, ok |-> FALSE, objs |-> <<>>]
      [] p = "jsonl" ->
           [kind |-> "csv",
            lines |-> [k \in DOMAIN f.lines |->
                         [k |-> "malformed", obj |-> NoObj,
                          bad |-> f.lines[k].bad, cells |-> f.lines[k].cells]]]
      [] OTHER -> f

\* JSON objects with the values JObjects lacks: false and an array, the
\* numbers 95.5 and 1234567, and two records of strings with the same fields
WideJObjects ==
    {[f \in FieldNames |-> IF f = "a" THEN JStr(X) ELSE JStr(Sp)],
     [f \in FieldNames |-> IF f = "a" THEN JBool(FALSE) ELSE JArr(X)],
     [f \in FieldNames |-> IF f = "a" THEN JNum(95, <<"5">>) ELSE JNum(1234567, <<>>)],
     [f \in FieldNames |-> IF f = "a" THEN JStr(Sp) ELSE JStr(X)]}

WideJsonContents ==
    JsonContents \cup
    {[kind |-> "json", ok |-> TRUE, objs |-> o] : o \in SeqsUpTo(WideJObjects, MaxRows)}

WideJsonlContents ==
    JsonlContents \cup
    {[kind |-> "jsonl", lines |-> l] :
        l \in SeqsUpTo({JLine("obj", o) : o \in WideJObjects} \cup {JLine("blank", NoObj)},
                       MaxRows)}

WideContentsFor(p) ==
    {CsvTextAs(p, f) : f \in CsvContents} \cup
    CASE p = "json" -> WideJsonContents
      [] p = "jsonl" -> WideJsonlContents
      [] OTHER -> CsvContents

WideInit ==
    /\ dryRun \in BOOLEAN
    /\ noLogFiles \in BOOLEAN
    /\ ext \in AllExts
    /\ execTemplate \in WideTemplates
    /\ content \in WideContentsFor(ParserFor(ext))
    /\ InitRun

\* Runs over the three extensions the switch names, each with a file of its
\* own format, records of every value type and the short templates.
RecordContentsFor(p) ==
    CASE p = "json" -> WideJsonContents
      [] p = "jsonl" -> WideJsonlContents
      [] OTHER -> CsvContents

RecordInit ==
    /\ dryRun \in BOOLEAN
    /\ noLogFiles \in BOOLEAN
    /\ ext \in Exts
    /\ execTemplate \in WideTemplates
    /\ content \in RecordContentsFor(ParserFor(ext))
    /\ InitRun

\* mutant: the deferred Close calls are missing
Closed_leaks(h) == h

\* the deferred file.Close() and logWriter.Close()
Closed(h) == IF h = "open" THEN "closed" ELSE h

\* return err (or nil) from the run: the deferred closes run
Return(err) ==
    /\ result' = err
    /\ pc' = "done"
    /\ file' = Closed(file)
    /\ logFile' = Closed(logFile)

\* mutant: the dry-run flag is not looked at
SelectExecutor_alwaysExecute(dry) == "execute"

\* which executor the run uses
SelectExecutor(dry) == IF dry THEN "print" ELSE "execute"

\* mutant: --no-log-files is not looked at
WantsLog_ignoresNoLog(dry, noLog) == ~dry

\* whether the run opens a log file
WantsLog(dry, noLog) == ~dry /\ ~noLog

\* mutant: the log file is not created at the start of the run
LogCreated_deferred == "none"

\* os.Create(logFileName) succeeded: the LogWriter holds the open file
LogCreated == "open"

\* processDataFileWithOptions up to the call of the format's function
Start ==
    /\ pc = "start"
    /\ UNCHANGED <<inputs, log, headers, allRows, tmpl, i, dispatched, stdout,
                   stderr, runs, returns>>
    /\ IF WantsLog(dryRun, noLogFiles)
       THEN \E created \in BOOLEAN :
              IF created
              THEN /\ logFile' = LogCreated
                   /\ executor' = SelectExecutor(dryRun)
                   /\ parser' = ParserFor(ext)
                   /\ pc' = "open"
                   /\ UNCHANGED <<file, result>>
              ELSE /\ result' = "failed to create log file"
                   /\ pc' = "done"
                   /\ UNCHANGED <<logFile, executor, parser, file>>
       ELSE /\ executor' = SelectExecutor(dryRun)
            /\ parser' = ParserFor(ext)
            /\ pc' = "open"
            /\ UNCHANGED <<logFile, file, result>>

\* the position after a successful os.Open: JSONL compiles the template
\* before it reads the lines, CSV and JSON after
AfterOpen(p) == IF p = "jsonl" THEN "compile" ELSE "read"
AfterRead(p) == IF p = "jsonl" THEN "loop" ELSE "compile"
\* mutant: the file is read (again) after the template is compiled
AfterCompile_rereads(p) == "read"

AfterCompile(p) == IF p = "jsonl" THEN "read" ELSE "loop"

\* os.Open(dataFile)
OpenFile ==
    /\ pc = "open"
    /\ UNCHANGED <<inputs, parser, executor, log, headers, allRows, tmpl, i,
                   dispatched, stdout, stderr, runs, returns>>
    /\ \E opened \in BOOLEAN :
         IF opened
         THEN /\ file' = "open"
              /\ pc' = AfterOpen(parser)
              /\ UNCHANGED <<logFile, result>>
         ELSE Return("failed to open data file")

\* csv.NewReader, the header Read and the loop that fills allRows
ReadCSV ==
    /\ pc = "read"
    /\ parser = "csv"
    /\ UNCHANGED <<inputs, parser, executor, log, tmpl, i, dispatched, stdout,
                   stderr, runs, returns>>
    /\ IF CsvHeaderErr(content.lines)
       THEN /\ Return("failed to read CSV headers")
            /\ UNCHANGED <<headers, allRows>>
       ELSE LET r == CsvReadAll(content.lines) IN
            /\ headers' = content.lines[1].cells
            /\ IF r.err
               THEN /\ Return("failed to read CSV row")
                    /\ UNCHANGED allRows
               ELSE /\ allRows' = r.rows
                    /\ pc' = AfterRead(parser)
                    /\ UNCHANGED <<file, logFile, result>>

\* json.NewDecoder(file).Decode(&data)
DecodeJSON ==
    /\ pc = "read"
    /\ parser = "json"
    /\ UNCHANGED <<inputs, parser, executor, log, headers, tmpl, i, dispatched,
                   stdout, stderr, runs, returns>>
    /\ IF ~content.ok
       THEN /\ Return("failed to parse JSON")
            /\ UNCHANGED allRows
       ELSE /\ allRows' = content.objs
            /\ pc' = AfterRead(parser)
            /\ UNCHANGED <<file, logFile, result>>

\* the Scanner loop that fills allLines, and scanner.Err()
ScanJSONL ==
    /\ pc = "read"
    /\ parser = "jsonl"
    /\ UNCHANGED <<inputs, parser, executor, log, headers, tmpl, i, dispatched,
                   stdout, stderr, runs, returns>>
    /\ LET r == ScanAll(content.lines) IN
       IF r.err
       THEN /\ Return("error reading JSONL file")
            /\ UNCHANGED allRows
       ELSE /\ allRows' = r.lines
            /\ pc' = AfterRead(parser)
            /\ UNCHANGED <<file, logFile, result>>

\* template.New("command").Parse(execTemplate)
CompileTemplate ==
    /\ pc = "compile"
    /\ UNCHANGED <<inputs, parser, executor, log, headers, allRows, i,
                   dispatched, stdout, stderr, runs, returns>>
    /\ IF ParseErr(execTemplate)
       THEN /\ Return("failed to parse template")
            /\ UNCHANGED tmpl
       ELSE /\ tmpl' = ParseTemplate(execTemplate)
            /\ pc' = AfterCompile(parser)
            /\ UNCHANGED <<file, logFile, result>>

\* lines of the console and of the log
PrintLine(cmd) == [k |-> "print", s |-> cmd, current |-> 0, total |-> 0]
\* mutant: the line without the [current/total] prefix
ProgressLine_noCounter(cmd, cur, tot) ==
    [k |-> "executing", s |-> cmd, current |-> 0, total |-> 0]

\* "[current/total] <timestamp> Executing: <command>"
ProgressLine(cmd, cur, tot) ==
    [k |-> "executing", s |-> cmd, current |-> cur, total |-> tot]
\* diagnostics on the error stream
Diag(kind, n) == [k |-> kind, n |-> n]
\* what the subprocess of record n wrote to a stream ("stdout" or "stderr")
OutputLine(stream, n) == [k |-> stream, s |-> <<>>, current |-> n, total |-> 0]

\* How a subprocess can end: it writes to its standard output and exits 0,
\* it writes to its standard error and exits non-zero, or it cannot be
\* started (nothing is written).
Outcomes ==
    {[ok |-> TRUE, out |-> "stdout"],
     [ok |-> FALSE, out |-> "stderr"],
     [ok |-> FALSE, out |-> "none"]}

\* mutant: the progress line goes to the console only
LogProgress_consoleOnly(lw, l, line) == l

\* if logWriter != nil { fmt.Fprintln(logWriter, logMessage) }
LogProgress(lw, l, line) == IF lw = "open" THEN Append(l, line) ELSE l

\* mutant: the subprocess writes to the console only
TeeOutput_consoleOnly(lw, l, stream, n) == l

\* the log side of io.MultiWriter(os.Stdout, logWriter) and
\* io.MultiWriter(os.Stderr, logWriter)
TeeOutput(lw, l, stream, n) ==
    IF lw = "open" /\ stream # "none" THEN Append(l, OutputLine(stream, n)) ELSE l

\* the value an executor call for record n returned: nil (ok) or an error
Returned(n, ok) == [current |-> n, ok |-> ok]

\* the index the loop goes to after record n
NextIndex(n) == n + 1

\* mutant: an executor error is dropped silently
ReportsError_never(ok) == FALSE

\* whether the loop reports an executor error
ReportsError(ok) == ~ok

\* mutant: the subprocess is started and not waited for
RunPosition_noWait == "loop"

\* return cmd.Run(): the executor call blocks until the subprocess has exited
RunPosition == "running"

\* mutant: a command without words is started like any other
EmptyCommand_never(parts) == FALSE

\* if len(parts) == 0 { return fmt.Errorf("empty command") }
EmptyCommand(parts) == Len(parts) = 0

\* executor(command, i+1, total): printCommand, or
\* executeCommandWithProgressAndLogging up to cmd.Run()
Invoke(cmd) ==
    /\ dispatched' = Append(dispatched,
           [command |-> cmd, current |-> i, total |-> Len(allRows),
            variant |-> executor])
    /\ IF executor = "print"
       THEN /\ stdout' = Append(stdout, PrintLine(cmd))
            /\ returns' = Append(returns, Returned(i, TRUE))
            /\ i' = NextIndex(i)
            /\ UNCHANGED <<pc, log, stderr, runs>>
       ELSE IF EmptyCommand(StringsFields(cmd))
       THEN /\ returns' = Append(returns, Returned(i, FALSE))
            /\ stderr' = Append(stderr, Diag("Command execution error", i))
            /\ i' = NextIndex(i)
            /\ UNCHANGED <<pc, log, stdout, runs>>
       ELSE /\ stdout' = Append(stdout, ProgressLine(cmd, i, Len(allRows)))
            /\ log' = LogProgress(logFile, log, ProgressLine(cmd, i, Len(allRows)))
            /\ runs' = Append(runs, StringsFields(cmd))
            /\ pc' = RunPosition
            /\ UNCHANGED <<i, stderr, returns>>

\* mutant: the error of tmpl.Execute is not looked at
RenderFailed_ignored(r) == FALSE

\* if err := tmpl.Execute(&buf, data); err != nil
RenderFailed(r) == r.err

\* tmpl.Execute on the record, then the executor call
RenderAndDispatch(data) ==
    LET r == Execute(tmpl, data) IN
    IF RenderFailed(r)
    THEN /\ stderr' = Append(stderr, Diag("Template execution error", i))
         /\ i' = NextIndex(i)
         /\ UNCHANGED <<pc, log, dispatched, stdout, runs, returns>>
    ELSE Invoke(r.out)

LoopFrame ==
    UNCHANGED <<inputs, parser, executor, logFile, file, headers, allRows, tmpl,
                result>>

\* one iteration of the CSV loop
ProcessCSVRow ==
    /\ pc = "loop"
    /\ parser = "csv"
    /\ i <= Len(allRows)
    /\ LoopFrame
    /\ RenderAndDispatch(CsvRecord(headers, allRows[i]))

\* mutant: stringRow is made once, before the loop, and keeps the fields of
\* the earlier objects
JsonRecord_carriesOver(rows, n) ==
    [f \in UNION {DOMAIN rows[k] : k \in 1..n} |->
        LET last == CHOOSE k \in 1..n :
                        /\ f \in DOMAIN rows[k]
                        /\ \A m \in 1..n : f \in DOMAIN rows[m] => m <= k
        IN Coerce(rows[last][f])]

\* stringRow := make(map[string]string) inside the loop, filled from row
JsonRecord(rows, n) == StringRow(rows[n])

\* one iteration of the JSON loop
ProcessJSONObject ==
    /\ pc = "loop"
    /\ parser = "json"
    /\ i <= Len(allRows)
    /\ LoopFrame
    /\ RenderAndDispatch(JsonRecord(allRows, i))

\* mutant: a line that does not decode is taken as an empty object
UnmarshalErr_never(line) == FALSE

\* json.Unmarshal([]byte(line), &row)
UnmarshalErr(line) == line.k = "malformed"

\* one iteration of the JSONL loop
ProcessJSONLLine ==
    /\ pc = "loop"
    /\ parser = "jsonl"
    /\ i <= Len(allRows)
    /\ LoopFrame
    /\ IF UnmarshalErr(allRows[i])
       THEN /\ stderr' = Append(stderr, Diag("Failed to parse JSON on line", i))
            /\ i' = NextIndex(i)
            /\ UNCHANGED <<pc, log, dispatched, stdout, runs, returns>>
       ELSE RenderAndDispatch(StringRow(allRows[i].obj))

\* cmd.Run(): the subprocess writes through the MultiWriters and exits (or
\* could not be started), Run returns and the loop reports an error
SubprocessExit ==
    /\ pc = "running"
    /\ LoopFrame
    /\ UNCHANGED <<dispatched, runs>>
    /\ \E o \in Outcomes :
         LET written == IF o.out = "stderr"
                        THEN Append(stderr, Diag("stderr", i))
                        ELSE stderr
         IN
         /\ stdout' = IF o.out = "stdout"
                      THEN Append(stdout, OutputLine("stdout", i))
                      ELSE stdout
         /\ log' = TeeOutput(logFile, log, o.out, i)
         /\ returns' = Append(returns, Returned(i, o.ok))
         /\ stderr' = IF ReportsError(o.ok)
                      THEN Append(written, Diag("Command execution error", i))
                      ELSE written
         /\ i' = NextIndex(i)
         /\ pc' = "loop"

\* the loop is over: return nil
Finish ==
    /\ pc = "loop"
    /\ i > Len(allRows)
    /\ Return("nil")
    /\ UNCHANGED <<inputs, parser, executor, log, headers, allRows, tmpl, i,
                   dispatched, stdout, stderr, runs, returns>>

\* mutant: the process exits 0 whatever the run returned
ExitCode_alwaysZero(err) == 0

\* main: a non-nil error of the run is printed and the process exits 1
ExitCode(err) == IF err = "nil" THEN 0 ELSE 1

Next ==
    \/ Start
    \/ OpenFile
    \/ ReadCSV
    \/ DecodeJSON
    \/ ScanJSONL
    \/ CompileTemplate
    \/ ProcessCSVRow
    \/ ProcessJSONObject
    \/ ProcessJSONLLine
    \/ SubprocessExit
    \/ Finish

Spec == Init /\ [][Next]_vars

WideSpec == WideInit /\ [][Next]_vars

RecordSpec == RecordInit /\ [][Next]_vars

----------------------------------------------------------------------------
(* Vocabulary of the properties, stated on the inputs and the observable    *)
(* effects of the run                                                       *)

RECURSIVE Flatten(_)
Flatten(ss) == IF ss = <<>> THEN <<>> ELSE Head(ss) \o Flatten(Tail(ss))

IsCsv == content.kind = "csv"
IsJson == content.kind = "json"
IsJsonl == content.kind = "jsonl"

\* the template has balanced delimiters
TemplateCompiles == \A k \in DOMAIN execTemplate : execTemplate[k].k # "unclosed"

\* the template is text and simple {{.field}} placeholders only
SimpleTemplate ==
    \A k \in DOMAIN execTemplate :
        \/ execTemplate[k].k = "text"
        \/ execTemplate[k].k = "field" /\ Len(execTemplate[k].chain) = 1

PlaceholderFields ==
    {execTemplate[k].chain[1] : k \in {j \in DOMAIN execTemplate : execTemplate[j].k = "field"}}

\* the data file was opened (the run got past the log file and os.Open)
Opened == file # "none"

\* a CSV file with a header row whose data rows all have the header's width
WellFormedCsv ==
    /\ IsCsv
    /\ Len(content.lines) >= 1
    /\ \A k \in DOMAIN content.lines :
          /\ ~content.lines[k].bad
          /\ Len(content.lines[k].cells) = Len(content.lines[1].cells)

CsvHeader == content.lines[1].cells
CsvDataRow(n) == content.lines[n + 1].cells
CsvRowCount == Len(content.lines) - 1
DeclaredHeaders == {CsvHeader[j] : j \in DOMAIN CsvHeader}
ColumnOf(f) == CHOOSE j \in DOMAIN CsvHeader : CsvHeader[j] = f

\* the template with each placeholder replaced by row n's value of that column
\* (the empty string for a column the file does not have)
CsvSubstituted(n) ==
    Flatten([k \in DOMAIN execTemplate |->
        IF execTemplate[k].k = "text" THEN execTemplate[k].s
        ELSE IF execTemplate[k].chain[1] \in DeclaredHeaders
             THEN CsvDataRow(n)[ColumnOf(execTemplate[k].chain[1])]
             ELSE <<>>])

\* the template with each placeholder replaced by the object's value
JsonSubstituted(obj) ==
    Flatten([k \in DOMAIN execTemplate |->
        IF execTemplate[k].k = "text" THEN execTemplate[k].s
        ELSE IF execTemplate[k].chain[1] \in DOMAIN obj
             THEN Coerce(obj[execTemplate[k].chain[1]])
             ELSE <<>>])

\* the progress lines of a stream or of the log
IsExecutingLine(l) == l.k = "executing"
ExecutingLines(ls) == SelectSeq(ls, IsExecutingLine)

CommandErrors(n) ==
    {j \in DOMAIN stderr : stderr[j] = Diag("Command execution error", n)}
FailedReturns(n) == {j \in DOMAIN returns : returns[j].current = n /\ ~returns[j].ok}
DispatchedFor(n) == {j \in DOMAIN dispatched : dispatched[j].current = n}
SkippedFor(n) ==
    {j \in DOMAIN stderr :
        /\ stderr[j].n = n
        /\ stderr[j].k \in {"Template execution error", "Failed to parse JSON on line"}}

----------------------------------------------------------------------------
(* C1: for a well-formed CSV file with N data rows and a template whose     *)
(* placeholders all name declared headers, the executor is invoked exactly  *)
(* N times, in row order, the k-th command being the template with every    *)
(* placeholder replaced by row k's value of that column, and the run        *)
(* returns nil.                                                             *)
C1_CsvCommandsInRowOrder ==
    (WellFormedCsv /\ SimpleTemplate /\ PlaceholderFields \subseteq DeclaredHeaders) =>
        /\ Len(dispatched) <= CsvRowCount
        /\ \A k \in DOMAIN dispatched :
              /\ dispatched[k].current = k
              /\ dispatched[k].command = CsvSubstituted(k)
        /\ (pc = "done" /\ Opened) =>
              /\ result = "nil"
              /\ Len(dispatched) = CsvRowCount

C1_Witness ==
    /\ WellFormedCsv /\ SimpleTemplate /\ PlaceholderFields \subseteq DeclaredHeaders
    /\ PlaceholderFields = {"a", "b"}
    /\ pc = "done"
    /\ Len(dispatched) = 2
    /\ dispatched[1].command # dispatched[2].command

(* C2: an executor call that returns an error never aborts the run: for     *)
(* every record whose executor call failed, exactly one "Command execution  *)
(* error" diagnostic is on the error stream, the loop has moved past that   *)
(* record, and at the end every later record was rendered and dispatched    *)
(* (or skipped for a rendering or decoding error of its own) and the run    *)
(* returned nil.                                                            *)
C2_ExecutorErrorDoesNotAbort ==
    /\ \A n \in 1..Len(allRows) :
          /\ Cardinality(CommandErrors(n)) = Cardinality(FailedReturns(n))
          /\ Cardinality(FailedReturns(n)) <= 1
    /\ \A j \in DOMAIN returns :
          ~returns[j].ok =>
              /\ i > returns[j].current
              /\ result \in {"none", "nil"}
              /\ pc = "done" =>
                    /\ result = "nil"
                    /\ \A m \in (returns[j].current + 1)..Len(allRows) :
                          Cardinality(DispatchedFor(m)) + Cardinality(SkippedFor(m)) = 1

C2_Witness ==
    /\ pc = "done"
    /\ Len(runs) = 2
    /\ Len(returns) = 2
    /\ ~returns[1].ok
    /\ returns[2].ok
    /\ Len(dispatched) = 2

(* C3: for a JSONL file whose lines are valid objects or malformed, and a   *)
(* template that compiles and renders, the executor is invoked exactly once *)
(* per valid line, in file order, exactly one "Failed to parse JSON"        *)
(* diagnostic is written per malformed line, and the run returns nil.       *)
IsObjLine(l) == l.k = "obj"
IsMalformedLine(l) == l.k = "malformed"
NoOverlongLine == \A k \in DOMAIN content.lines : content.lines[k].k # "toolong"
ValidLines == SelectSeq(content.lines, IsObjLine)
MalformedLines == SelectSeq(content.lines, IsMalformedLine)
ParseDiags == {j \in DOMAIN stderr : stderr[j].k = "Failed to parse JSON on line"}

C3_JsonlMalformedLinesSkipped ==
    (IsJsonl /\ NoOverlongLine /\ TemplateCompiles /\ SimpleTemplate) =>
        /\ Len(dispatched) <= Len(ValidLines)
        /\ \A k \in DOMAIN dispatched :
              dispatched[k].command = JsonSubstituted(ValidLines[k].obj)
        /\ \A j, k \in DOMAIN dispatched :
              j < k => dispatched[j].current < dispatched[k].current
        /\ Cardinality(ParseDiags) <= Len(MalformedLines)
        /\ Cardinality({stderr[j].n : j \in ParseDiags}) = Cardinality(ParseDiags)
        /\ (pc = "done" /\ Opened) =>
              /\ result = "nil"
              /\ Len(dispatched) = Len(ValidLines)
              /\ Cardinality(ParseDiags) = Len(MalformedLines)

C3_Witness ==
    /\ IsJsonl /\ NoOverlongLine /\ TemplateCompiles /\ SimpleTemplate
    /\ pc = "done"
    /\ Len(content.lines) = 2
    /\ content.lines[1].k = "malformed"
    /\ content.lines[2].k = "obj"
    /\ Len(dispatched) = 1
    /\ Cardinality(ParseDiags) = 1

(* C4: a CSV data row with fewer columns than the header does not abort the *)
(* run: its record holds the columns present, the missing trailing fields   *)
(* render empty, and a command is dispatched for it and for every following *)
(* row.  (Stated as the claim has it; the code does not do this.)           *)
ShortRowCsv ==
    /\ IsCsv
    /\ Len(content.lines) >= 2
    /\ \A k \in DOMAIN content.lines :
          /\ ~content.lines[k].bad
          /\ Len(content.lines[k].cells) <= Len(content.lines[1].cells)
    /\ \E k \in DOMAIN content.lines :
          Len(content.lines[k].cells) < Len(content.lines[1].cells)

C4_ShortRowStillDispatched ==
    (ShortRowCsv /\ SimpleTemplate /\ pc = "done" /\ Opened) =>
        /\ result = "nil"
        /\ Len(dispatched) = CsvRowCount

(* C5: a placeholder naming a field that the current record does not have   *)
(* renders as the empty string: rendering reports no error, the record is   *)
(* dispatched with the placeholder replaced by nothing, and the run is not  *)
(* aborted.                                                                 *)
IsNonBlankLine(l) == l.k # "blank"
RecordCount ==
    CASE IsCsv -> CsvRowCount
      [] IsJson -> Len(content.objs)
      [] OTHER -> Len(SelectSeq(content.lines, IsNonBlankLine))
\* record n decodes (every CSV row and JSON object does, once the file is read)
Decodes(n) == IsJsonl => SelectSeq(content.lines, IsNonBlankLine)[n].k = "obj"
RecordFields(n) ==
    CASE IsCsv -> DeclaredHeaders
      [] IsJson -> DOMAIN content.objs[n]
      [] OTHER -> DOMAIN SelectSeq(content.lines, IsNonBlankLine)[n].obj
Substituted(n) ==
    CASE IsCsv -> CsvSubstituted(n)
      [] IsJson -> JsonSubstituted(content.objs[n])
      [] OTHER -> JsonSubstituted(SelectSeq(content.lines, IsNonBlankLine)[n].obj)
HasAbsentField(n) == ~(PlaceholderFields \subseteq RecordFields(n))
RenderErrors == {j \in DOMAIN stderr : stderr[j].k = "Template execution error"}

Readable ==
    \/ WellFormedCsv
    \/ IsJson /\ content.ok
    \/ IsJsonl /\ NoOverlongLine

C6_InvalidTemplateAborts ==
    ~TemplateCompiles =>
        /\ dispatched = <<>>
        /\ stdout = <<>>
        /\ runs = <<>>
        /\ (pc = "done" /\ Opened /\ (IsJsonl \/ Readable)) =>
              result = "failed to parse template"

C6_Witness ==
    /\ ~TemplateCompiles
    /\ IsJson
    /\ Len(allRows) = 2
    /\ pc = "done"
    /\ result = "failed to parse template"

(* C7: in dry-run mode no subprocess is started and no log file is created; *)
(* the only effect of the executor is the rendered commands on standard     *)
(* output, verbatim, one line each, in record order (N lines for a valid    *)
(* input with N records); every dispatch of a run goes to the one variant   *)
(* chosen for the run.                                                      *)
NoMalformedLine == IsJsonl => \A k \in DOMAIN content.lines : content.lines[k].k # "malformed"
ValidInput == Readable /\ NoMalformedLine /\ SimpleTemplate

C7_DryRunOnlyPrints ==
    /\ \A j \in DOMAIN dispatched :
          /\ dispatched[j].variant = executor
          /\ dispatched[j].variant = IF dryRun THEN "print" ELSE "execute"
    /\ dryRun =>
          /\ runs = <<>>
          /\ logFile = "none"
          /\ log = <<>>
          /\ stdout = [k \in DOMAIN dispatched |-> PrintLine(dispatched[k].command)]
          /\ \A j \in DOMAIN stderr : stderr[j].k # "Command execution error"
          /\ (ValidInput /\ pc = "done" /\ Opened) =>
                /\ result = "nil"
                /\ Len(stdout) = RecordCount
                /\ \A n \in 1..RecordCount : stdout[n].s = Substituted(n)

C7_Witness ==
    /\ dryRun
    /\ ValidInput
    /\ pc = "done"
    /\ Len(stdout) = 2
    /\ stdout[1].s # stdout[2].s
    /\ PlaceholderFields # {}

(* C8 as stated: in normal mode with logging enabled, after a run over N    *)
(* records the log file exists and holds exactly N "Executing:" lines; with *)
(* logging suppressed no log file is created.                               *)
C8_LogHasOneLinePerRecord ==
    (~dryRun /\ ValidInput /\ PlaceholderFields # {} /\ pc = "done" /\ result = "nil") =>
        IF noLogFiles THEN logFile = "none"
        ELSE logFile = "closed" /\ Len(ExecutingLines(log)) = RecordCount

(* C8 amended: in normal mode with logging enabled, after the run the log   *)
(* file exists and holds exactly one "Executing:" line for every record     *)
(* whose rendered command has a non-whitespace word, in record order (N     *)
(* lines when that is so for all N records); with logging suppressed no log *)
(* file is created.                                                         *)
HasWord(cmd) == \E k \in DOMAIN cmd : cmd[k] # " "
DispatchHasWord(d) == HasWord(d.command)
WordDispatches == SelectSeq(dispatched, DispatchHasWord)

C8_LogHasOneLinePerNonEmptyCommand ==
    ~dryRun =>
        /\ noLogFiles => (logFile = "none" /\ log = <<>>)
        /\ ~noLogFiles =>
              /\ (pc = "done" /\ result # "failed to create log file") => logFile = "closed"
              /\ ExecutingLines(log) = [k \in DOMAIN WordDispatches |->
                          ProgressLine(WordDispatches[k].command,
                                       WordDispatches[k].current,
                                       WordDispatches[k].total)]
              /\ \A j, k \in DOMAIN ExecutingLines(log) :
                    j < k => ExecutingLines(log)[j].current < ExecutingLines(log)[k].current
              /\ (/\ pc = "done" /\ result = "nil" /\ ValidInput
                  /\ \A n \in 1..RecordCount : HasWord(Substituted(n)))
                 => Len(ExecutingLines(log)) = RecordCount

C8_Witness ==
    /\ ~dryRun /\ ~noLogFiles
    /\ ValidInput
    /\ pc = "done"
    /\ result = "nil"
    /\ logFile = "closed"
    /\ RecordCount = 2
    /\ Len(dispatched) = 2
    /\ Len(ExecutingLines(log)) = 1
    /\ ExecutingLines(log)[1].current = 2

(* C9: a fatal error occurs only before any record is processed and the run *)
(* is linear: whenever the run has returned an error the executor was never *)
(* invoked; once a record has been dispatched the run stays in the record   *)
(* loop, where it is never stuck and every step advances it (to the next    *)
(* record, or from the dispatch of a record to the return of its executor   *)
(* call), until it has gone through all records and returns nil; no phase   *)
(* (init, open, normalize, template-compile, record loop, done) is entered  *)
(* again after it was left.                                                 *)
PhaseRank(p, c) ==
    CASE c = "start" -> 0
      [] c = "open" -> 1
      [] c = "read" -> IF p = "jsonl" THEN 3 ELSE 2
      [] c = "compile" -> IF p = "jsonl" THEN 2 ELSE 3
      [] c \in {"loop", "running"} -> 4
      [] OTHER -> 5

\* how far the record loop has come: twice the record index, plus one while
\* the executor call of that record is running
LoopProgress(n, c) == 2 * n + (IF c = "running" THEN 1 ELSE 0)

C9_FatalOnlyBeforeRecords ==
    /\ result \notin {"none", "nil"} => (dispatched = <<>> /\ stdout = <<>> /\ runs = <<>>)
    /\ pc \in {"loop", "running"} => ENABLED Next
    /\ LoopProgress(i, pc) <= 2 * (Len(allRows) + 1)
    /\ (dispatched # <<>> /\ pc = "done") =>
          /\ result = "nil"
          /\ i = Len(allRows) + 1
          /\ \A n \in 1..Len(allRows) :
                Cardinality(DispatchedFor(n)) + Cardinality(SkippedFor(n)) = 1

C9_LinearStep ==
    /\ PhaseRank(parser', pc') >= PhaseRank(parser', pc)
    /\ i' >= i
    /\ pc \in {"loop", "running"} =>
          \/ LoopProgress(i', pc') > LoopProgress(i, pc)
          \/ pc' = "done" /\ i > Len(allRows)
    /\ dispatched # <<>> =>
          /\ pc' \in {"loop", "running", "done"}
          /\ result' \in {"none", "nil"}

C9_LinearRun ==
    /\ []C9_FatalOnlyBeforeRecords
    /\ [][C9_LinearStep]_vars

C9_Witness ==
    /\ pc = "done"
    /\ result = "nil"
    /\ parser = "jsonl"
    /\ Len(allRows) = 2
    /\ Len(dispatched) = 1
    /\ dispatched[1].current = 1
    /\ Cardinality(SkippedFor(2)) = 1

(* C10: each fatal condition aborts the whole run with a non-nil error and  *)
(* no dispatched command: the log file cannot be created while logging is   *)
(* requested, the data file cannot be opened, the CSV header or any CSV     *)
(* data row is unreadable (also after valid rows), the JSON file does not   *)
(* decode as an array of objects.                                           *)
LogCreationFailed == ~dryRun /\ ~noLogFiles /\ pc # "start" /\ logFile = "none"
OpenFailed == pc = "done" /\ file = "none" /\ ~LogCreationFailed
CsvUnreadable ==
    /\ IsCsv
    /\ \/ Len(content.lines) = 0
       \/ \E k \in DOMAIN content.lines : content.lines[k].bad

C10_FatalConditionsAbort ==
    /\ LogCreationFailed =>
          (pc = "done" /\ result = "failed to create log file" /\ dispatched = <<>>)
    /\ OpenFailed => (result = "failed to open data file" /\ dispatched = <<>>)
    /\ CsvUnreadable =>
          /\ dispatched = <<>>
          /\ (pc = "done" /\ Opened) =>
                result \in {"failed to read CSV headers", "failed to read CSV row"}
    /\ (IsJson /\ ~content.ok) =>
          /\ dispatched = <<>>
          /\ (pc = "done" /\ Opened) => result = "failed to parse JSON"

C10_Witness ==
    /\ IsCsv
    /\ Len(content.lines) = 3
    /\ ~content.lines[1].bad
    /\ ~content.lines[2].bad
    /\ Len(content.lines[2].cells) = Len(content.lines[1].cells)
    /\ content.lines[3].bad
    /\ TemplateCompiles
    /\ pc = "done"
    /\ result = "failed to read CSV row"

(* C11: per-record errors never change the outcome: whatever JSONL decode   *)
(* failures, render failures, empty commands and failing subprocesses the   *)
(* run met, it returns nil and the process exits 0; the run returns an      *)
(* error, and the process exits non-zero, exactly when a fatal condition    *)
(* holds (log file creation, file open, unreadable CSV/JSON/JSONL input,    *)
(* template compile), and then no record was processed.                     *)
PerRecordDiags ==
    {j \in DOMAIN stderr :
        stderr[j].k \in {"Command execution error", "Template execution error",
                         "Failed to parse JSON on line"}}
FailedCalls == {j \in DOMAIN returns : ~returns[j].ok}
FatalCondition ==
    \/ LogCreationFailed
    \/ OpenFailed
    \/ IsCsv /\ ~WellFormedCsv
    \/ IsJson /\ ~content.ok
    \/ IsJsonl /\ ~NoOverlongLine
    \/ ~TemplateCompiles

C11_PerRecordErrorsKeepExitZero ==
    /\ (PerRecordDiags # {} \/ FailedCalls # {}) =>
          /\ result \in {"none", "nil"}
          /\ pc = "done" => ExitCode(result) = 0
    /\ pc = "done" =>
          /\ result # "none"
          /\ (result = "nil") <=> ~FatalCondition
          /\ (ExitCode(result) = 0) <=> ~FatalCondition
          /\ FatalCondition =>
                (dispatched = <<>> /\ PerRecordDiags = {} /\ returns = <<>>)

C11_Witness ==
    /\ IsJsonl
    /\ ~dryRun
    /\ pc = "done"
    /\ Len(allRows) = 2
    /\ Cardinality(ParseDiags) = 1
    /\ RenderErrors = {}
    /\ Cardinality(CommandErrors(2)) = 1
    /\ runs # <<>>
    /\ result = "nil"
    /\ ExitCode(result) = 0

(* C12: a log file that was opened is closed exactly once, when the run     *)
(* returns (normally or with a fatal error raised after its creation), and  *)
(* nothing is written to it unless it is open; the data file, once opened,  *)
(* is likewise closed when the run returns, whatever per-record errors      *)
(* occurred.  A handle only ever goes from unopened to open (at its         *)
(* creation) and from open to closed (at the return of the run).            *)
C12_ReleasedAtExit ==
    /\ pc = "done" => (logFile # "open" /\ file # "open")
    /\ pc # "done" => (logFile # "closed" /\ file # "closed")
    /\ log # <<>> => logFile # "none"

C12_HandleStep ==
    /\ logFile' # logFile =>
          \/ logFile = "none" /\ logFile' = "open" /\ pc = "start"
          \/ logFile = "open" /\ logFile' = "closed" /\ pc # "done" /\ pc' = "done"
    /\ file' # file =>
          \/ file = "none" /\ file' = "open" /\ pc = "open"
          \/ file = "open" /\ file' = "closed" /\ pc # "done" /\ pc' = "done"
    /\ log' # log => (logFile = "open" /\ logFile' = "open")
    /\ (pc # "done" /\ pc' = "done") =>
          /\ logFile = "open" => logFile' = "closed"
          /\ file = "open" => file' = "closed"

C12_ResourcesClosedOnce ==
    /\ []C12_ReleasedAtExit
    /\ [][C12_HandleStep]_vars

C12_Witness ==
    /\ pc = "done"
    /\ result = "failed to parse template"
    /\ logFile = "closed"
    /\ file = "closed"
    /\ allRows # <<>>

(* C13: the reader is chosen from the extension alone, compared without     *)
(* regard to case: .json gives the JSON-array reader, .jsonl the JSON-Lines *)
(* reader, every other extension (.csv, none, unknown) the CSV reader,      *)
(* whatever the file holds.  A file of CSV text under any extension that is *)
(* not .json or .jsonl gives the records and commands of the CSV reading    *)
(* (the same for .data as for .csv); under .json it fails to decode and     *)
(* under .jsonl no line of it decodes.                                      *)
JsonExts == {".json", ".JSON", ".Json"}
JsonlExts == {".jsonl", ".JSONL"}
ExpectedParser ==
    IF ext \in JsonExts THEN "json"
    ELSE IF ext \in JsonlExts THEN "jsonl"
    ELSE "csv"

C13_FormatFromExtensionAlone ==
    /\ parser # "none" => parser = ExpectedParser
    /\ result = "failed to parse JSON" => ext \in JsonExts
    /\ (result = "error reading JSONL file" \/ ParseDiags # {}) => ext \in JsonlExts
    /\ result \in {"failed to read CSV headers", "failed to read CSV row"} =>
          ext \notin (JsonExts \cup JsonlExts)
    /\ headers # <<>> => ext \notin (JsonExts \cup JsonlExts)
    /\ (IsCsv /\ ext \in JsonExts) =>
          /\ dispatched = <<>>
          /\ (pc = "done" /\ Opened) => result \in {"failed to parse JSON"}
    /\ (IsCsv /\ ext \in JsonlExts) =>
          /\ dispatched = <<>>
          /\ (pc = "done" /\ Opened /\ TemplateCompiles) =>
                (result = "nil" /\ Cardinality(ParseDiags) = Len(content.lines))
    /\ (WellFormedCsv /\ SimpleTemplate /\ ext \notin (JsonExts \cup JsonlExts)) =>
          /\ \A k \in DOMAIN dispatched :
                /\ dispatched[k].current = k
                /\ dispatched[k].command = CsvSubstituted(k)
          /\ (pc = "done" /\ Opened) =>
                (result = "nil" /\ Len(dispatched) = CsvRowCount)

C13_Witness ==
    /\ ext = ".data"
    /\ WellFormedCsv
    /\ PlaceholderFields # {}
    /\ pc = "done"
    /\ Len(dispatched) = 2
    /\ dispatched[1].command # dispatched[2].command

(* C14 as stated: the executor runs the rendered command through a shell,   *)
(* so a pipe or a redirect in the command is an operator and is never       *)
(* passed as an argument to the program named by the first word.  (The code *)
(* splits the command on whitespace and starts the first word directly.)    *)
ShellOperators == {<<"|">>, <<">">>}

C14_ShellOperatorsInterpreted ==
    \A j \in DOMAIN runs :
        \A k \in 2..Len(runs[j]) : runs[j][k] \notin ShellOperators

(* C15: in execution mode a rendered command without any non-whitespace     *)
(* word is a per-record error and not fatal: no subprocess is started and   *)
(* no progress line is written for it, exactly one "Command execution       *)
(* error" is on the error stream for that record, the loop moves on, every  *)
(* later record is processed and the run returns nil.                       *)
IsExecuteDispatch(d) == d.variant = "execute"
EmptyDispatches ==
    {j \in DOMAIN dispatched :
        IsExecuteDispatch(dispatched[j]) /\ ~HasWord(dispatched[j].command)}
StartedDispatches ==
    {j \in DOMAIN dispatched :
        IsExecuteDispatch(dispatched[j]) /\ HasWord(dispatched[j].command)}

C15_EmptyCommandSkipsRecord ==
    /\ Len(runs) = Cardinality(StartedDispatches)
    /\ \A j \in DOMAIN runs : runs[j] # <<>>
    /\ \A j \in EmptyDispatches :
          LET n == dispatched[j].current IN
          /\ Cardinality(CommandErrors(n)) = 1
          /\ Cardinality(FailedReturns(n)) = 1
          /\ \A k \in DOMAIN stdout : stdout[k].current # n
          /\ \A k \in DOMAIN log : log[k].current # n
          /\ i > n
          /\ result \in {"none", "nil"}
          /\ pc = "done" =>
                /\ result = "nil"
                /\ \A m \in (n + 1)..Len(allRows) :
                      Cardinality(DispatchedFor(m)) + Cardinality(SkippedFor(m)) = 1

C15_Witness ==
    /\ ~dryRun
    /\ pc = "done"
    /\ result = "nil"
    /\ Len(dispatched) = 2
    /\ EmptyDispatches = {1}
    /\ StartedDispatches = {2}
    /\ Len(runs) = 1
    /\ CommandErrors(1) # {}

(* C16: a record whose rendering fails is skipped and the run continues:    *)
(* exactly one "Template execution error" naming that record is on the      *)
(* error stream, the executor is not invoked for it (nothing of a partly    *)
(* rendered command is dispatched), the loop moves on, and at the end every *)
(* record that decodes and renders was dispatched once and the run returned *)
(* nil.                                                                     *)
FileIsNative == content.kind = ExpectedParser
\* the text of field f in record n (empty when the record has no such field)
FieldText(n, f) ==
    CASE IsCsv -> IF f \in DeclaredHeaders THEN CsvDataRow(n)[ColumnOf(f)] ELSE <<>>
      [] IsJson -> IF f \in DOMAIN content.objs[n]
                   THEN Coerce(content.objs[n][f]) ELSE <<>>
      [] OTHER ->
           LET o == SelectSeq(content.lines, IsNonBlankLine)[n].obj IN
           IF f \in DOMAIN o THEN Coerce(o[f]) ELSE <<>>
\* the template engine rejects record n: a field of a string value, or a
\* slice of an empty value
Rejected(n) ==
    \E k \in DOMAIN execTemplate :
        \/ execTemplate[k].k = "field" /\ Len(execTemplate[k].chain) > 1
        \/ execTemplate[k].k = "slice" /\ FieldText(n, execTemplate[k].chain[1]) = <<>>
RenderErrorsFor(n) == {j \in RenderErrors : stderr[j].n = n}

C16_RenderFailureSkipsRecord ==
    /\ \A j \in RenderErrors :
          LET n == stderr[j].n IN
          /\ n \in 1..Len(allRows)
          /\ Cardinality(RenderErrorsFor(n)) = 1
          /\ DispatchedFor(n) = {}
          /\ \A k \in DOMAIN stdout : stdout[k].current # n
          /\ i > n
          /\ result \in {"none", "nil"}
          /\ pc = "done" => result = "nil"
    /\ (FileIsNative /\ pc = "done" /\ result = "nil") =>
          \A n \in 1..RecordCount :
              Decodes(n) =>
                  IF Rejected(n)
                  THEN Cardinality(RenderErrorsFor(n)) = 1 /\ DispatchedFor(n) = {}
                  ELSE RenderErrorsFor(n) = {} /\ Cardinality(DispatchedFor(n)) = 1

C16_Witness ==
    /\ IsJson
    /\ execTemplate = <<TextTok(<<"e">>), SliceTok("a")>>
    /\ pc = "done"
    /\ Len(allRows) = 2
    /\ Cardinality(RenderErrorsFor(1)) = 1
    /\ Len(dispatched) = 1
    /\ dispatched[1].current = 2
    /\ dispatched[1].command = <<"e", "x">>

(* C17: in execution mode one progress line "[current/total] ... Executing: *)
(* <command>" is on the console for every subprocess started, written       *)
(* before anything of that subprocess, and the same lines are in the log    *)
(* when logging is enabled; current is the 1-based position of the record   *)
(* in the input and total the number of records of the input (data rows,    *)
(* array elements, non-blank lines), so 1 <= current <= total, current      *)
(* strictly increases from line to line and total is the same on all.       *)
ProgressLines == ExecutingLines(stdout)
OutputOf(n) == {j \in DOMAIN stdout : stdout[j] = OutputLine("stdout", n)}

C17_ProgressLinePerDispatch ==
    /\ dryRun => ProgressLines = <<>>
    /\ ~dryRun =>
          /\ ProgressLines =
                [k \in DOMAIN WordDispatches |->
                    ProgressLine(WordDispatches[k].command,
                                 WordDispatches[k].current,
                                 WordDispatches[k].total)]
          /\ Len(runs) = Len(ProgressLines)
          /\ \A k \in DOMAIN ProgressLines :
                /\ 1 <= ProgressLines[k].current
                /\ ProgressLines[k].current <= ProgressLines[k].total
                /\ ProgressLines[k].total = RecordCount
                /\ (FileIsNative /\ SimpleTemplate) =>
                      ProgressLines[k].s = Substituted(ProgressLines[k].current)
          /\ \A j, k \in DOMAIN ProgressLines :
                j < k => ProgressLines[j].current < ProgressLines[k].current
          /\ ExecutingLines(log) = (IF logFile = "none" THEN <<>> ELSE ProgressLines)
          /\ pc = "running" =>
                /\ stdout # <<>>
                /\ stdout[Len(stdout)] = ProgressLines[Len(ProgressLines)]
                /\ stdout[Len(stdout)].current = i
                /\ OutputOf(i) = {}

C17_Witness ==
    /\ ~dryRun /\ ~noLogFiles
    /\ IsCsv
    /\ pc = "done"
    /\ Len(ProgressLines) = 2
    /\ ProgressLines[1].current = 1
    /\ ProgressLines[2].current = 2
    /\ ProgressLines[1].total = 2
    /\ ExecutingLines(log) = ProgressLines
    /\ ProgressLines[1].s # ProgressLines[2].s

(* C18: execution is strictly sequential: at most one executor call, and at *)
(* most one subprocess, is in progress at any time, the j-th return belongs *)
(* to the j-th dispatch, and a record is rendered and dispatched, and the   *)
(* loop index moves, only when every earlier executor call has returned.    *)
CallsInProgress == Len(dispatched) - Len(returns)

C18_AtMostOneCall ==
    /\ CallsInProgress \in {0, 1}
    /\ (CallsInProgress = 1) <=> (pc = "running")
    /\ \A j \in DOMAIN returns : returns[j].current = dispatched[j].current
    /\ pc = "running" => dispatched[Len(dispatched)].current = i

C18_SequentialStep ==
    /\ Len(dispatched') > Len(dispatched) =>
          /\ Len(dispatched') = Len(dispatched) + 1
          /\ Len(returns) = Len(dispatched)
          /\ dispatched'[Len(dispatched')].current = i
    /\ Len(runs') > Len(runs) =>
          (Len(runs') = Len(runs) + 1 /\ Len(returns) = Len(dispatched))
    /\ Len(stderr') > Len(stderr) => i' = i + 1
    /\ i' # i => (i' = i + 1 /\ Len(returns') = Len(dispatched'))
    /\ pc = "running" =>
          /\ dispatched' = dispatched
          /\ runs' = runs
          /\ Len(returns') = Len(returns) + 1

C18_StrictlySequential ==
    /\ []C18_AtMostOneCall
    /\ [][C18_SequentialStep]_vars

C18_Witness ==
    /\ pc = "running"
    /\ Len(dispatched) = 2
    /\ Len(returns) = 1
    /\ Len(runs) = 2
    /\ i = 2

(* C19: with a log file, the log holds in record order, for every record    *)
(* whose subprocess was started, its progress line followed by what the     *)
(* subprocess wrote to standard output and standard error: every progress   *)
(* line and every subprocess write on the console is in the log too, the    *)
(* first log line of a record is its progress line, and all log lines of a  *)
(* record precede all log lines of the records after it.  The log holds     *)
(* nothing else, and nothing without a log file.                            *)
IsStdoutLine(l) == l.k = "stdout"
IsStderrLine(l) == l.k = "stderr"
LogLinesOf(n) == {j \in DOMAIN log : log[j].current = n}
Min(S) == CHOOSE x \in S : \A y \in S : x <= y

C19_LogMirrorsConsoleInOrder ==
    /\ logFile = "none" => log = <<>>
    /\ logFile # "none" =>
          /\ ExecutingLines(log) = ExecutingLines(stdout)
          /\ SelectSeq(log, IsStdoutLine) = SelectSeq(stdout, IsStdoutLine)
          /\ [k \in DOMAIN SelectSeq(log, IsStderrLine) |->
                 SelectSeq(log, IsStderrLine)[k].current]
               = [k \in DOMAIN SelectSeq(stderr, IsStderrLine) |->
                    SelectSeq(stderr, IsStderrLine)[k].n]
          /\ \A j \in DOMAIN log : log[j].k \in {"executing", "stdout", "stderr"}
          /\ \A j, k \in DOMAIN log : j < k => log[j].current <= log[k].current
          /\ \A j \in DOMAIN log :
                /\ log[Min(LogLinesOf(log[j].current))].k = "executing"
                /\ log[j].k = "executing" => j = Min(LogLinesOf(log[j].current))

C19_Witness ==
    /\ ~dryRun /\ ~noLogFiles
    /\ pc = "done"
    /\ logFile = "closed"
    /\ Len(log) = 4
    /\ log[1].k = "executing" /\ log[1].current = 1
    /\ log[2].k = "stdout" /\ log[2].current = 1
    /\ log[3].k = "executing" /\ log[3].current = 2
    /\ log[4].k = "stderr" /\ log[4].current = 2

(* C20: the record handed to the template has string values only, in all    *)
(* three formats: a JSON or JSONL string is unchanged, a boolean is "true"  *)
(* or "false", null is the empty string, a nested object or array is its    *)
(* compact JSON text, and a CSV cell is used as it is; so for a template of *)
(* text and simple placeholders every record that decodes is rendered and   *)
(* dispatched with these texts in place of the placeholders.                *)
ClaimedText(v) ==
    CASE v.t = "str" -> v.s
      [] v.t = "bool" -> IF v.b THEN <<"t", "r", "u", "e">> ELSE <<"f", "a", "l", "s", "e">>
      [] v.t = "null" -> <<>>
      [] v.t = "obj" -> <<"{", "\"", "b", "\"", ":", "\"">> \o v.s \o <<"\"", "}">>
      [] v.t = "arr" -> <<"[", "\"">> \o v.s \o <<"\"", "]">>
RecordObj(n) ==
    IF IsJson THEN content.objs[n]
    ELSE SelectSeq(content.lines, IsNonBlankLine)[n].obj
\* the placeholders of the template name no number-valued field of record n
NoNumberUsed(n) ==
    \A f \in PlaceholderFields \cap DOMAIN RecordObj(n) : RecordObj(n)[f].t # "num"
ClaimedCommand(n) ==
    Flatten([k \in DOMAIN execTemplate |->
        IF execTemplate[k].k = "text" THEN execTemplate[k].s
        ELSE IF execTemplate[k].chain[1] \in DOMAIN RecordObj(n)
             THEN ClaimedText(RecordObj(n)[execTemplate[k].chain[1]])
             ELSE <<>>])

PlainDecimal(v) == Digits(v.ip) \o (IF v.fp = <<>> THEN <<>> ELSE <<".">> \o v.fp)

C21_NumbersRenderAsPlainDecimals ==
    (FileIsNative /\ ~IsCsv /\ Len(execTemplate) = 1 /\ SimpleTemplate /\ PlaceholderFields # {}) =>
        \A j \in DOMAIN dispatched :
            LET o == RecordObj(dispatched[j].current)
                f == execTemplate[1].chain[1]
            IN (f \in DOMAIN o /\ o[f].t = "num") =>
                   dispatched[j].command = PlainDecimal(o[f])

(* C22 as stated: for JSON input a field whose value is a nested object can *)
(* be reached with dot notation: with a record whose b is {"b": "x"}, the   *)
(* placeholder {{.b.b}} renders "x" and the command is dispatched.  (The    *)
(* code turns the nested object into its JSON text before rendering.)       *)
C22_NestedFieldByDotNotation ==
    (/\ FileIsNative /\ IsJson
     /\ execTemplate = <<FieldTok(<<"b", "b">>)>>
     /\ pc = "done" /\ result = "nil") =>
        \A n \in DOMAIN content.objs :
            content.objs[n]["b"].t = "obj" =>
                \E j \in DispatchedFor(n) :
                    dispatched[j].command = content.objs[n]["b"].s

(* C23 as stated: a JSON number with a fractional part is rendered rounded  *)
(* to an integer (95.5 as "96", 87.2 as "87").  (The code's %g keeps the    *)
(* fraction.)                                                               *)
HalfOrMore(fp) == fp # <<>> /\ fp[1] \in {"5", "6", "7", "8", "9"}
Rounded(v) == Digits(v.ip + (IF HalfOrMore(v.fp) THEN 1 ELSE 0))

C23_FractionsRenderRounded ==
    (FileIsNative /\ ~IsCsv /\ Len(execTemplate) = 1 /\ SimpleTemplate /\ PlaceholderFields # {}) =>
        \A j \in DOMAIN dispatched :
            LET o == RecordObj(dispatched[j].current)
                f == execTemplate[1].chain[1]
            IN (f \in DOMAIN o /\ o[f].t = "num" /\ o[f].fp # <<>>) =>
                   dispatched[j].command = Rounded(o[f])

(* C24 as stated: the number printed in "Failed to parse JSON on line <n>"  *)
(* is the 1-based number of the failing line in the data file, blank lines  *)
(* before it included.  (The code prints the line's index among the         *)
(* non-blank lines it kept.)                                                *)
PhysicalMalformed == {k \in DOMAIN content.lines : content.lines[k].k = "malformed"}

C24_DiagnosticNamesPhysicalLine ==
    (FileIsNative /\ IsJsonl /\ pc = "done" /\ result = "nil") =>
        {stderr[j].n : j \in ParseDiags} = PhysicalMalformed

(* C25: each record is built fresh: the command dispatched for record k is  *)
(* what the template renders on record k's own fields alone, so a field     *)
(* that record k-1 has and record k lacks renders as the empty string for   *)
(* record k, and a record k-1 that was skipped or whose command failed      *)
(* changes nothing in the command of record k.                              *)
OwnFields(n) == [f \in RecordFields(n) |-> FieldText(n, f)]
OwnRender(n) == Execute(ParseTemplate(execTemplate), OwnFields(n))
LeftBehind(n) ==
    {f \in PlaceholderFields : f \in RecordFields(n - 1) /\ f \notin RecordFields(n)}

AllStrings(o) == \A f \in DOMAIN o : o[f].t = "str"
IsStringTable ==
    CASE IsCsv -> WellFormedCsv
      [] IsJson -> content.ok /\ \A n \in DOMAIN content.objs : AllStrings(content.objs[n])
      [] OTHER -> \A n \in DOMAIN content.lines :
                     content.lines[n].k = "obj" /\ AllStrings(content.lines[n].obj)
\* the table, whatever the format
Table ==
    CASE IsCsv -> [n \in 1..CsvRowCount |->
                      [f \in DeclaredHeaders |-> CsvDataRow(n)[ColumnOf(f)]]]
      [] IsJson -> [n \in DOMAIN content.objs |->
                      [f \in DOMAIN content.objs[n] |-> content.objs[n][f].s]]
      [] OTHER -> [n \in DOMAIN content.lines |->
                      [f \in DOMAIN content.lines[n].obj |-> content.lines[n].obj[f].s]]
TableRender(n) == Execute(ParseTemplate(execTemplate), Table[n])
Renderable == {n \in DOMAIN Table : ~TableRender(n).err}
TwoRowTable ==
    <<[f \in FieldNames |-> IF f = "a" THEN X ELSE Sp],
      [f \in FieldNames |-> IF f = "a" THEN Sp ELSE X]>>

C26_FormatsUnified ==
    (FileIsNative /\ IsStringTable /\ pc = "done" /\ result = "nil") =>
        /\ {dispatched[j].current : j \in DOMAIN dispatched} = Renderable
        /\ Len(dispatched) = Cardinality(Renderable)
        /\ \A j \in DOMAIN dispatched :
              /\ dispatched[j].command = TableRender(dispatched[j].current).out
              /\ dispatched[j].total = Len(Table)
              /\ \A m \in DOMAIN dispatched :
                    m < j => dispatched[m].current < dispatched[j].current

C26_Witness ==
    /\ FileIsNative /\ IsCsv /\ IsStringTable
    /\ pc = "done" /\ result = "nil"
    /\ Table = TwoRowTable
    /\ Len(dispatched) = 2
    /\ dispatched[1].command # dispatched[2].command

(* C27: on normal completion every record read (CSV data row, JSON array    *)
(* element, non-blank JSONL line) was handled exactly once and in input     *)
(* order: dispatched once or skipped with one diagnostic, never both, so    *)
(* dispatched + skipped = total; blank JSONL lines are neither counted,     *)
(* dispatched nor diagnosed.                                                *)
Records == 1..RecordCount
SkipDiags == ParseDiags \cup RenderErrors

C27_EveryRecordHandledOnce ==
    (FileIsNative /\ pc = "done" /\ result = "nil") =>
        /\ \A n \in Records :
              Cardinality(DispatchedFor(n)) + Cardinality(SkippedFor(n)) = 1
        /\ \A j \in DOMAIN dispatched :
              /\ dispatched[j].current \in Records
              /\ dispatched[j].total = RecordCount
        /\ \A j \in SkipDiags : stderr[j].n \in Records
        /\ Len(dispatched) + Cardinality(SkipDiags) = RecordCount
        /\ \A j, m \in DOMAIN dispatched :
              j < m => dispatched[j].current < dispatched[m].current
        /\ \A j, m \in SkipDiags : j < m => stderr[j].n < stderr[m].n

C27_Witness ==
    /\ FileIsNative /\ IsJsonl
    /\ pc = "done" /\ result = "nil"
    /\ \E k \in DOMAIN content.lines : content.lines[k].k = "blank"
    /\ RecordCount = 1
    /\ Len(dispatched) = 1
    /\ dispatched[1].total = 1
    /\ SkipDiags = {}

(* C28: a log file is created if and only if dry-run is false and           *)
(* no-log-files is false, and it is created before the data file is opened  *)
(* and before the template is compiled: a run that then aborts with a fatal *)
(* error (missing data file, unreadable CSV/JSON, invalid template) has     *)
(* created the log file, written nothing to it and closed it.               *)
LogRequested == ~dryRun /\ ~noLogFiles
LogCreationError == result = "failed to create log file"
FatalAbort == pc = "done" /\ result \notin {"nil", "failed to create log file"}

C28_LogCreatedFirst ==
    /\ logFile # "none" => LogRequested
    /\ (LogRequested /\ pc # "start" /\ ~LogCreationError) => logFile # "none"
    /\ (LogRequested /\ (Opened \/ tmpl # <<>>)) => logFile # "none"
    /\ (LogRequested /\ FatalAbort) => logFile = "closed" /\ log = <<>>
    /\ ~LogRequested => log = <<>>

C28_Witness ==
    /\ LogRequested
    /\ FatalAbort
    /\ ~Opened
    /\ logFile = "closed"
    /\ log = <<>>

(* C29: in execution mode the empty-command check comes before any output:  *)
(* for a rendered command that is empty or whitespace-only no "Executing:"  *)
(* line is written to the console or to the log, so the number of           *)
(* "Executing:" lines in the log equals the number of records whose         *)
(* rendered command has at least one non-whitespace word, and each such     *)
(* line is written even when the subprocess then fails to start.            *)
RendersWords(n) ==
    Decodes(n) /\ LET r == OwnRender(n) IN ~r.err /\ HasWord(r.out)
ExecutingFor(ls, n) == {j \in DOMAIN ls : IsExecutingLine(ls[j]) /\ ls[j].current = n}
\* the subprocess of record n did not start: the call failed and wrote nothing
NotStarted(n) ==
    /\ FailedReturns(n) # {}
    /\ \A j \in DOMAIN log : log[j].current = n => IsExecutingLine(log[j])

C29_EmptyCheckBeforeOutput ==
    (FileIsNative /\ ~dryRun) =>
        /\ \A j \in DOMAIN dispatched :
              LET n == dispatched[j].current IN
              IF HasWord(dispatched[j].command)
              THEN /\ Cardinality(ExecutingFor(stdout, n)) = 1
                   /\ logFile # "none" => Cardinality(ExecutingFor(log, n)) = 1
              ELSE /\ ExecutingFor(stdout, n) = {}
                   /\ ExecutingFor(log, n) = {}
        /\ (logFile # "none" /\ pc = "done" /\ result = "nil") =>
              Len(ExecutingLines(log)) = Cardinality({n \in Records : RendersWords(n)})

C29_Witness ==
    /\ FileIsNative /\ ~dryRun /\ logFile = "closed"
    /\ pc = "done" /\ result = "nil"
    /\ EmptyDispatches # {}
    /\ \E j \in StartedDispatches :
          /\ NotStarted(dispatched[j].current)
          /\ Cardinality(ExecutingFor(log, dispatched[j].current)) = 1
    /\ Len(ExecutingLines(log)) = 1
    /\ RecordCount = 2

====
